---- MODULE Spec2Model ----
(***************************************************************************)
(* Model of src/components/ProcessGraph.tsx:                               *)
(*   - the Tree Reducer: the parentId callback handed to d3.stratify       *)
(*     inside the useMemo of ProcessGraph (lines 29-57);                   *)
(*   - the Viewport Fitter: the zoom/fit useEffect (lines 59-93) together  *)
(*     with the ResizeObserver effect (lines 16-27);                       *)
(*   - the PDF Text Extractor: extractTextFromPdf (lines 131-145).         *)
(* The three parts share no state; each has its own specification.        *)
(***************************************************************************)
EXTENDS Integers, Sequences, FiniteSets, TLC

VARIABLES
    \* ---- Tree Reducer ----
    nodes,        \* data.nodes: the list of node ids
    edges,        \* data.edges: the list of <<source, target>> pairs
    parentOf,     \* what parentId has returned so far, per node id
    treePc,       \* "start" | "stratify" | "done"
    idx,          \* position of d3.stratify in data.nodes (next node to visit)
    \* ---- Viewport Fitter ----
    hasNodes,     \* nodes.length # 0: the svg and its container are rendered
    observed,     \* the ResizeObserver watches the rendered container
    dimensions,   \* the dimensions state: [width, height]
    bounds,       \* g.node().getBBox(): [x, y, width, height]
    transform,    \* the current zoom transform of the svg: [k, x, y]
    transition,   \* << >>, or <<t>> while a transition to t is running
    effectPending,\* a render has queued the zoom/fit effect
    overridden,   \* a user gesture has set the transform since the last data change
    gestureTransform, \* << >>, or <<t>>: the transform the last gesture set
    lastStep,     \* the step taken last
    \* ---- PDF Text Extractor ----
    pdfPc,        \* where extractTextFromPdf stands: "idle", the await it is
                  \* suspended at, "returned" or "rejected"
    numPages,     \* pdf.numPages
    i,            \* the loop variable
    fullText,     \* the text accumulated so far
    outstanding,  \* the library requests not yet settled
    result,       \* << >>, or <<s>> once the promise has resolved with s
    log,          \* the page requests made and page texts appended, in order
    yielded,      \* the item lists the library has delivered, in order
    failure       \* << >>, or <<request>>: the request the library rejected

treeVars == <<nodes, edges, parentOf, treePc, idx>>

viewVars == <<hasNodes, observed, dimensions, bounds, transform, transition,
              effectPending, overridden, gestureTransform, lastStep>>

pdfVars == <<pdfPc, numPages, i, fullText, outstanding, result, log, yielded, failure>>

vars == <<treeVars, viewVars, pdfVars>>

----------------------------------------------------------------------------
\* Bounds

MaxNodes == 3
MaxEdges == 3
MaxBoxUnits == 2
MaxPages == 2
MaxItems == 2

----------------------------------------------------------------------------
\* Numbers.  A JavaScript number is kept as an exact fraction <<n, d>> in
\* lowest terms with d >= 0; d = 0 stands for a non-finite value (the result
\* of a division by zero), which line 82 keeps the fitter from producing.

Abs(n) == IF n < 0 THEN -n ELSE n

RECURSIVE Gcd(_, _)
Gcd(a, b) == IF b = 0 THEN a ELSE Gcd(b, a % b)

Norm(n, d) ==
    LET g == Gcd(Abs(n), Abs(d))
        s == IF d < 0 THEN -1 ELSE 1
    IN  IF g = 0 THEN <<0, 0>> ELSE <<(s * n) \div g, (s * d) \div g>>

Num(n) == <<n, 1>>
RAdd(a, b) == Norm(a[1] * b[2] + b[1] * a[2], a[2] * b[2])
RSub(a, b) == Norm(a[1] * b[2] - b[1] * a[2], a[2] * b[2])
RMul(a, b) == Norm(a[1] * b[1], a[2] * b[2])
RDiv(a, b) == Norm(a[1] * b[2], a[2] * b[1])
\* Math.min
RMin(a, b) == IF a[1] * b[2] <= b[1] * a[2] THEN a ELSE b

----------------------------------------------------------------------------
\* Viewport Fitter

\* useState({ width: 800, height: 600 })
InitialDimensions == [width |-> 800, height |-> 600]

\* sizes the ResizeObserver may report (contentRect)
ViewportSizes ==
    { InitialDimensions,
      [width |-> 400, height |-> 300],
      [width |-> 1200, height |-> 600],
      [width |-> 0, height |-> 0] }

\* bounding boxes getBBox may report for a laid-out tree
Boxes ==
    { [x |-> o[1], y |-> o[2], width |-> 100 * u, height |-> 100 * v] :
        o \in { <<0, 0>>, <<-110, -40>> }, u \in 0 .. MaxBoxUnits, v \in 0 .. MaxBoxUnits }

NoBox == [x |-> 0, y |-> 0, width |-> 0, height |-> 0]

\* d3.zoomIdentity
ZoomIdentity == [k |-> Num(1), x |-> Num(0), y |-> Num(0)]

\* Transform.translate(x, y) of d3-zoom
Translate(t, tx, ty) ==
    [k |-> t.k, x |-> RAdd(t.x, RMul(t.k, tx)), y |-> RAdd(t.y, RMul(t.k, ty))]

\* Transform.scale(k) of d3-zoom
Scale(t, k) == [k |-> RMul(t.k, k), x |-> t.x, y |-> t.y]

\* transforms a user gesture may leave (scaleExtent [0.2, 2])
GestureTransforms ==
    { [k |-> <<1, 5>>, x |-> Num(0), y |-> Num(0)],
      [k |-> Num(2), x |-> Num(50), y |-> Num(-30)] }

\* mutation of Degenerate: only a zero width is caught
Degenerate_WidthOnly(b) == b.width = 0

\* line 82: fullWidth === 0 || fullHeight === 0
Degenerate(b) == b.width = 0 \/ b.height = 0

\* the padding factor 0.85 of line 84
Padding == <<17, 20>>

\* mutation of FitTransform: the identity is scaled before it is translated
FitTransform_ScaleFirst(dim, b) ==
    LET midX  == RAdd(Num(b.x), RDiv(Num(b.width), Num(2)))
        midY  == RAdd(Num(b.y), RDiv(Num(b.height), Num(2)))
        scale == RMul(Padding, RMin(RDiv(Num(dim.width), Num(b.width)),
                                    RDiv(Num(dim.height), Num(b.height))))
        t0    == RSub(RDiv(Num(dim.width), Num(2)), RMul(scale, midX))
        t1    == RSub(RDiv(Num(dim.height), Num(2)), RMul(scale, midY))
    IN  Translate(Scale(ZoomIdentity, scale), t0, t1)

\* lines 76-90: the transform handed to zoom.transform
FitTransform(dim, b) ==
    LET midX  == RAdd(Num(b.x), RDiv(Num(b.width), Num(2)))
        midY  == RAdd(Num(b.y), RDiv(Num(b.height), Num(2)))
        scale == RMul(Padding, RMin(RDiv(Num(dim.width), Num(b.width)),
                                    RDiv(Num(dim.height), Num(b.height))))
        t0    == RSub(RDiv(Num(dim.width), Num(2)), RMul(scale, midX))
        t1    == RSub(RDiv(Num(dim.height), Num(2)), RMul(scale, midY))
    IN  Scale(Translate(ZoomIdentity, t0, t1), scale)

\* lines 59-93: the zoom/fit effect
FitEffect ==
    /\ effectPending
    /\ effectPending' = FALSE
    /\ lastStep' = "effect"
    /\ IF ~hasNodes \/ Degenerate(bounds)
       THEN transition' = transition
       ELSE transition' = <<FitTransform(dimensions, bounds)>>
    /\ UNCHANGED <<hasNodes, observed, dimensions, bounds, transform,
                   overridden, gestureTransform, treeVars, pdfVars>>

\* lines 17-22: the ResizeObserver callback; the new dimensions object
\* re-renders and queues the effect (deps [nodes, links, dimensions])
ResizeNotify ==
    /\ ~effectPending
    /\ observed
    /\ \E d \in ViewportSizes : dimensions' = d
    /\ effectPending' = TRUE
    /\ lastStep' = "resize"
    /\ UNCHANGED <<hasNodes, observed, bounds, transform, transition,
                   overridden, gestureTransform, treeVars, pdfVars>>

\* the data prop changes: useMemo (deps [data]) yields new nodes and links,
\* the effect is queued; when the svg is rendered anew or removed its zoom
\* state starts over, and a removed container is no longer the observed one
DataChange ==
    /\ ~effectPending
    /\ \E h \in BOOLEAN :
         /\ hasNodes' = h
         /\ bounds' \in (IF h THEN Boxes ELSE {NoBox})
         /\ observed' = (observed /\ h)
         /\ IF h = hasNodes
            THEN UNCHANGED <<transform, transition>>
            ELSE transform' = ZoomIdentity /\ transition' = << >>
    /\ effectPending' = TRUE
    /\ overridden' = FALSE
    /\ gestureTransform' = << >>
    /\ lastStep' = "data"
    /\ UNCHANGED <<dimensions, treeVars, pdfVars>>

\* lines 67-69 on a user gesture: d3-zoom interrupts a running transition
\* and the 'zoom' handler applies the gesture's transform
Gesture ==
    /\ ~effectPending
    /\ hasNodes
    /\ \E t \in GestureTransforms :
         /\ transform' = t
         /\ gestureTransform' = <<t>>
    /\ transition' = << >>
    /\ overridden' = TRUE
    /\ lastStep' = "gesture"
    /\ UNCHANGED <<hasNodes, observed, dimensions, bounds, effectPending, treeVars, pdfVars>>

\* lines 67-69 at the end of the 750 ms transition of lines 87-90
TransitionEnd ==
    /\ ~effectPending
    /\ transition # << >>
    /\ transform' = transition[1]
    /\ transition' = << >>
    /\ lastStep' = "transitionEnd"
    /\ UNCHANGED <<hasNodes, observed, dimensions, bounds, effectPending,
                   overridden, gestureTransform, treeVars, pdfVars>>

ViewNext == FitEffect \/ ResizeNotify \/ DataChange \/ Gesture \/ TransitionEnd

----------------------------------------------------------------------------
\* Tree Reducer

\* the value null returned by parentId
Null == 0

NodeIds == 1 .. MaxNodes

\* an edge is <<source, target>>
Source(e) == e[1]
Target(e) == e[2]

EdgeLists == UNION {[1 .. n -> NodeIds \X NodeIds] : n \in 0 .. MaxEdges}

\* node lists: ids are unique.  parentId looks at one node at a time, so
\* only the set of listed ids matters; up to renaming the ids, the lists
\* <<1, ..., n>> are all of them.  Edges may name ids that are not listed.
NodeLists == {[j \in 1 .. n |-> j] : n \in 0 .. MaxNodes}

\* data.edges.find(e => e.target === d): index of the first match, 0 if none
FindIncoming(es, d) ==
    IF \E j \in 1 .. Len(es) : Target(es[j]) = d
    THEN CHOOSE j \in 1 .. Len(es) :
            /\ Target(es[j]) = d
            /\ \A k \in 1 .. (j - 1) : Target(es[k]) # d
    ELSE 0

\* mutation of IsCycle: only an edge other than the incoming one counts
IsCycle_OtherEdge(es, d, j) ==
    /\ j # 0
    /\ \E k \in 1 .. Len(es) :
          k # j /\ Source(es[k]) = d /\ Target(es[k]) = Source(es[j])

\* data.edges.some(e => e.source === d && e.target === edge?.source)
\* (edge undefined: edge?.source is undefined and equals no target)
IsCycle(es, d, j) ==
    /\ j # 0
    /\ \E k \in 1 .. Len(es) : Source(es[k]) = d /\ Target(es[k]) = Source(es[j])

\* mutation of ParentId: the cycle guard is left out
ParentId_NoGuard(es, d) ==
    LET j == FindIncoming(es, d)
    IN  IF j # 0 THEN Source(es[j]) ELSE Null

\* mutation of ParentId: the edge's target is returned instead of its source
ParentId_ReturnsTarget(es, d) ==
    LET j == FindIncoming(es, d)
    IN  IF j # 0 /\ ~IsCycle(es, d, j) THEN Target(es[j]) ELSE Null

\* the parentId callback
ParentId(es, d) ==
    LET j == FindIncoming(es, d)
    IN  IF j # 0 /\ ~IsCycle(es, d, j) THEN Source(es[j]) ELSE Null

\* useMemo, lines 30-32: no nodes, nothing is stratified
ReturnEmpty ==
    /\ treePc = "start"
    /\ Len(nodes) = 0
    /\ treePc' = "done"
    /\ UNCHANGED <<nodes, edges, parentOf, idx, viewVars, pdfVars>>

\* useMemo, line 37: d3.stratify starts on data.nodes
BeginStratify ==
    /\ treePc = "start"
    /\ Len(nodes) > 0
    /\ treePc' = "stratify"
    /\ UNCHANGED <<nodes, edges, parentOf, idx, viewVars, pdfVars>>

\* d3.stratify calls parentId on the next node of data.nodes
CallParentId ==
    /\ treePc = "stratify"
    /\ idx <= Len(nodes)
    /\ parentOf' = (nodes[idx] :> ParentId(edges, nodes[idx])) @@ parentOf
    /\ idx' = idx + 1
    /\ treePc' = IF idx = Len(nodes) THEN "done" ELSE "stratify"
    /\ UNCHANGED <<nodes, edges, viewVars, pdfVars>>

TreeNext == ReturnEmpty \/ BeginStratify \/ CallParentId

----------------------------------------------------------------------------
\* PDF Text Extractor

\* items of a page's text content: text items carry str, marked-content
\* items do not
Items ==
    { [str |-> "Hello"], [str |-> "World"], [str |-> "Foo"],
      [type |-> "beginMarkedContent"] }

\* item lists a page may yield (no item twice)
ItemLists ==
    {s \in UNION {[1 .. n -> Items] : n \in 0 .. MaxItems} :
        \A a, b \in 1 .. Len(s) : a # b => s[a] # s[b]}

\* line 140: 'str' in item ? item.str : ''
ItemStr(item) == IF "str" \in DOMAIN item THEN item.str ELSE ""

RECURSIVE Join(_, _)
\* Array.prototype.join
Join(strs, sep) ==
    IF Len(strs) = 0 THEN ""
    ELSE IF Len(strs) = 1 THEN strs[1]
    ELSE strs[1] \o sep \o Join(Tail(strs), sep)

\* mutation of PageText: the fragments are joined without a separator
PageText_NoSeparator(items) ==
    Join([j \in 1 .. Len(items) |-> ItemStr(items[j])], "")

\* line 140: textContent.items.map(...).join(' ')
PageText(items) ==
    Join([j \in 1 .. Len(items) |-> ItemStr(items[j])], " ")

\* line 141: fullText += pageText + '\n\n'
AppendPage(text, items) == text \o PageText(items) \o "\n\n"

\* mutation of AfterPage: the next page is requested along with the text
AfterPage_Prefetch(p, n) ==
    << <<"getTextContent", p>> >> \o
        (IF p + 1 <= n THEN << <<"getPage", p + 1>> >> ELSE << >>)

\* lines 138-139: the requests made once page p has arrived
AfterPage(p, n) == << <<"getTextContent", p>> >>

\* mutation of Rejected: the failure is caught and the text read so far returned
Rejected_ReturnsPartial(text) == [pc |-> "returned", result |-> <<text>>]

\* a rejected await throws out of the function: its promise rejects and
\* nothing is returned
Rejected(text) == [pc |-> "rejected", result |-> << >>]

\* line 131: extractTextFromPdf is called; line 132 awaits file.arrayBuffer()
Call ==
    /\ pdfPc = "idle"
    /\ pdfPc' = "arrayBuffer"
    /\ outstanding' = {<<"arrayBuffer", 0>>}
    /\ UNCHANGED <<numPages, i, fullText, result, log, yielded, failure,
                   treeVars, viewVars>>

\* line 133: the buffer arrives, getDocument is requested
BufferResolves ==
    /\ pdfPc = "arrayBuffer"
    /\ <<"arrayBuffer", 0>> \in outstanding
    /\ pdfPc' = "getDocument"
    /\ outstanding' = {<<"getDocument", 0>>}
    /\ UNCHANGED <<numPages, i, fullText, result, log, yielded, failure,
                   treeVars, viewVars>>

\* the loop head of line 137 with i = p, the log being lg: request page p,
\* or return the text (line 144)
LoopHead(p, n, text, lg) ==
    IF p <= n
    THEN /\ pdfPc' = "getPage"
         /\ outstanding' = {<<"getPage", p>>}
         /\ log' = Append(lg, <<"getPage", p>>)
         /\ result' = result
    ELSE /\ pdfPc' = "returned"
         /\ outstanding' = {}
         /\ log' = lg
         /\ result' = <<text>>

\* lines 134-137: the document arrives with n pages
DocumentResolves ==
    /\ pdfPc = "getDocument"
    /\ <<"getDocument", 0>> \in outstanding
    /\ \E n \in 0 .. MaxPages :
         /\ numPages' = n
         /\ LoopHead(1, n, "", log)
    /\ fullText' = ""
    /\ i' = 1
    /\ UNCHANGED <<yielded, failure, treeVars, viewVars>>

\* line 139: page i arrives, its text content is requested
PageResolves ==
    /\ pdfPc = "getPage"
    /\ <<"getPage", i>> \in outstanding
    /\ pdfPc' = "getTextContent"
    /\ LET reqs == AfterPage(i, numPages)
       IN  /\ outstanding' = (outstanding \ {<<"getPage", i>>})
                                \cup {reqs[j] : j \in 1 .. Len(reqs)}
           /\ log' = log \o reqs
    /\ UNCHANGED <<numPages, i, fullText, result, yielded, failure,
                   treeVars, viewVars>>

\* lines 140-142, then 137 or 144: the text content of page i arrives
TextResolves ==
    /\ pdfPc = "getTextContent"
    /\ <<"getTextContent", i>> \in outstanding
    /\ \E items \in ItemLists :
         /\ fullText' = AppendPage(fullText, items)
         /\ yielded' = Append(yielded, items)
         /\ LoopHead(i + 1, numPages, AppendPage(fullText, items),
                     Append(log, <<"append", i>>))
    /\ i' = i + 1
    /\ UNCHANGED <<numPages, failure, treeVars, viewVars>>

\* lines 132, 133, 138, 139: the awaited request is rejected by the library
AwaitRejects ==
    /\ pdfPc \in {"arrayBuffer", "getDocument", "getPage", "getTextContent"}
    /\ \E r \in outstanding :
         /\ r[1] = pdfPc
         /\ failure' = <<r>>
         /\ outstanding' = outstanding \ {r}
    /\ pdfPc' = Rejected(fullText).pc
    /\ result' = Rejected(fullText).result
    /\ UNCHANGED <<numPages, i, fullText, log, yielded, treeVars, viewVars>>

PdfNext == Call \/ BufferResolves \/ DocumentResolves \/ PageResolves
              \/ TextResolves \/ AwaitRejects

----------------------------------------------------------------------------
\* Specifications: each part runs while the other two stay at rest

TreeStart ==
    /\ parentOf = << >>
    /\ treePc = "start"
    /\ idx = 1

TreeIdle ==
    /\ nodes = << >>
    /\ edges = << >>
    /\ TreeStart

ViewStart ==
    /\ dimensions = InitialDimensions
    /\ transform = ZoomIdentity
    /\ transition = << >>
    /\ overridden = FALSE
    /\ gestureTransform = << >>
    /\ lastStep = "mount"

ViewIdle ==
    /\ hasNodes = FALSE
    /\ observed = FALSE
    /\ bounds = NoBox
    /\ effectPending = FALSE
    /\ ViewStart

\* extractTextFromPdf has not been called
PdfIdle ==
    /\ pdfPc = "idle"
    /\ numPages = 0
    /\ i = 0
    /\ fullText = ""
    /\ outstanding = {}
    /\ result = << >>
    /\ log = << >>
    /\ yielded = << >>
    /\ failure = << >>

\* the node and edge lists handed to the component
TreeInit ==
    /\ nodes \in NodeLists
    /\ edges \in EdgeLists
    /\ TreeStart
    /\ ViewIdle
    /\ PdfIdle

\* first render: with no nodes the container is not rendered and the
\* ResizeObserver effect (deps []) finds containerRef.current null
ViewInit ==
    /\ hasNodes \in BOOLEAN
    /\ observed = hasNodes
    /\ bounds \in (IF hasNodes THEN Boxes ELSE {NoBox})
    /\ effectPending = TRUE
    /\ ViewStart
    /\ TreeIdle
    /\ PdfIdle

PdfInit == PdfIdle /\ TreeIdle /\ ViewIdle

TreeSpec == TreeInit /\ [][TreeNext]_vars

ViewSpec == ViewInit /\ [][ViewNext]_vars

PdfSpec == PdfInit /\ [][PdfNext]_vars

----------------------------------------------------------------------------
\* PDF Text Extractor: properties

\* the j-th entry of the strictly sequential log:
\* getPage 1, getTextContent 1, append 1, getPage 2, ...
Sequential(j) ==
    << <<"getPage", "getTextContent", "append">>[((j - 1) % 3) + 1],
       ((j - 1) \div 3) + 1 >>

\* C5: pages are requested in the order 1, 2, ..., N, at most one request is
\* outstanding, page i+1 is not requested before the text of page i has been
\* received and appended, and the function returns only after all N pages.
C5_SequentialPages ==
    /\ Cardinality(outstanding) <= 1
    /\ \A j \in 1 .. Len(log) : log[j] = Sequential(j)
    /\ Len(yielded) = Cardinality({j \in 1 .. Len(log) : log[j][1] = "append"})
    /\ pdfPc = "returned" => (Len(log) = 3 * numPages /\ Len(yielded) = numPages)

\* a document of several pages has been read to the end
C5_Witness ==
    /\ pdfPc = "returned"
    /\ numPages >= 2
    /\ log[Len(log)] = <<"append", numPages>>

\* C7: when opening the document, or getting page k or its text content,
\* fails, the function rejects, returns nothing (no partial text), and no
\* page after k is requested.
C7_FailureAborts ==
    failure # << >> =>
        /\ pdfPc = "rejected"
        /\ result = << >>
        /\ outstanding = {}
        /\ \A j \in 1 .. Len(log) : log[j][2] <= failure[1][2]
        /\ failure[1][1] \in {"arrayBuffer", "getDocument"} => log = << >>

\* the text content of page 2 failed after page 1 had been read
C7_Witness ==
    /\ failure = << <<"getTextContent", 2>> >>
    /\ pdfPc = "rejected"
    /\ Len(yielded) = 1
    /\ fullText # "\n\n"

\* the fragments of a page: each item's string, empty for an item without one
Fragments(items) ==
    [j \in 1 .. Len(items) |-> IF "str" \in DOMAIN items[j] THEN items[j].str ELSE ""]

RECURSIVE SpaceSeparated(_)
\* the fragments with one space between neighbours
SpaceSeparated(fs) ==
    IF Len(fs) = 0 THEN ""
    ELSE IF Len(fs) = 1 THEN fs[1]
    ELSE SpaceSeparated(SubSeq(fs, 1, Len(fs) - 1)) \o " " \o fs[Len(fs)]

RECURSIVE ExpectedText(_)
\* every page's space-separated fragments followed by two newlines, in order
ExpectedText(pages) ==
    IF Len(pages) = 0 THEN ""
    ELSE ExpectedText(SubSeq(pages, 1, Len(pages) - 1))
            \o SpaceSeparated(Fragments(pages[Len(pages)])) \o "\n" \o "\n"

ExamplePages == << <<[str |-> "Hello"], [str |-> "World"]>>, <<[str |-> "Foo"]>> >>

\* C8: the returned text is, for the pages 1..N in order, the page's
\* fragments joined by single spaces followed by two newlines (after the last
\* page too); pages ["Hello","World"] and ["Foo"] give "Hello World\n\nFoo\n\n".
C8_OutputFormat ==
    pdfPc = "returned" =>
        /\ Len(yielded) = numPages
        /\ result = <<ExpectedText(yielded)>>
        /\ yielded = ExamplePages => result = <<"Hello World\n\nFoo\n\n">>

\* the two-page example has been extracted
C8_Witness ==
    /\ pdfPc = "returned"
    /\ yielded = ExamplePages
    /\ result = <<"Hello World\n\nFoo\n\n">>

----------------------------------------------------------------------------
\* Viewport Fitter: properties

\* C4: once a user gesture has set the transform, the fit starts no
\* transition and the transform stays the one the gesture set, whatever
\* happens later (resize notifications included), until the data changes.
C4_GestureHolds ==
    overridden => (transition = << >> /\ transform = gestureTransform[1])

\* C6: when the fit effect runs on a bounding box of width 0 or height 0 it
\* starts no transition and leaves the transform as it was; so does every
\* further run in that state.
C6_DegenerateNoOp ==
    [][(effectPending /\ ~effectPending' /\ hasNodes
            /\ (bounds.width = 0 \/ bounds.height = 0))
          => (transform' = transform /\ transition' = transition)]_vars

\* the effect has run again, after a resize, on a zero-extent box while the
\* user's transform was in place, and that transform is still there
C6_Witness ==
    /\ lastStep = "effect"
    /\ hasNodes
    /\ (bounds.width = 0 \/ bounds.height = 0)
    /\ dimensions # InitialDimensions
    /\ overridden
    /\ transform = gestureTransform[1]
    /\ transition = << >>

\* the box of the worked example and the transform the claim gives for it
ExampleBox == [x |-> 0, y |-> 0, width |-> 200, height |-> 100]
ExampleFit == [k |-> <<17, 5>>, x |-> Num(60), y |-> Num(130)]

\* C9: for a box of non-zero width and height the fitter hands over the
\* transform with scale = 0.85 * min(W / boxWidth, H / boxHeight) and
\* translate = (W/2 - scale * midX, H/2 - scale * midY); for the box
\* {0, 0, 200, 100} in an 800 x 600 viewport that is 3.4, 60, 130.
\* (The equations are stated over the integers, cleared of denominators.)
C9_FitFormula ==
    (lastStep = "effect" /\ hasNodes /\ bounds.width # 0 /\ bounds.height # 0) =>
        /\ Len(transition) = 1
        /\ LET t  == transition[1]
               W  == dimensions.width
               H  == dimensions.height
               bw == bounds.width
               bh == bounds.height
           IN  /\ t.k[2] > 0 /\ t.x[2] > 0 /\ t.y[2] > 0
               /\ IF W * bh <= H * bw
                  THEN 20 * bw * t.k[1] = 17 * W * t.k[2]
                  ELSE 20 * bh * t.k[1] = 17 * H * t.k[2]
               /\ 2 * t.k[2] * t.x[1] =
                    t.x[2] * (W * t.k[2] - t.k[1] * (2 * bounds.x + bw))
               /\ 2 * t.k[2] * t.y[1] =
                    t.y[2] * (H * t.k[2] - t.k[1] * (2 * bounds.y + bh))
               /\ (dimensions = InitialDimensions /\ bounds = ExampleBox)
                    => t = ExampleFit

\* the worked example has been fitted
C9_Witness ==
    /\ lastStep = "effect"
    /\ hasNodes
    /\ dimensions = InitialDimensions
    /\ bounds = ExampleBox
    /\ transition = <<ExampleFit>>

----------------------------------------------------------------------------
\* Tree Reducer: properties

TreeDone == treePc = "done"

NodeSet == {nodes[j] : j \in 1 .. Len(nodes)}

\* one step along parentOf; null and unlisted ids have no parent
Up(d) == IF d \in DOMAIN parentOf THEN parentOf[d] ELSE Null

RECURSIVE Anc(_, _)
\* the node reached from d by following parentOf k times
Anc(d, k) == IF k = 0 THEN d ELSE Up(Anc(d, k - 1))

Roots == {d \in DOMAIN parentOf : parentOf[d] = Null}

EdgesOverNodes ==
    \A j \in 1 .. Len(edges) :
        Source(edges[j]) \in NodeSet /\ Target(edges[j]) \in NodeSet

\* targets of the edges leaving a node of S
Succ(S) == {Target(edges[j]) : j \in {k \in 1 .. Len(edges) : Source(edges[k]) \in S}}

RECURSIVE ReachIn(_, _)
\* nodes reached from S by 1 .. k edges
ReachIn(S, k) == IF k = 0 THEN {} ELSE Succ(S) \cup ReachIn(Succ(S), k - 1)

\* the edge list has no directed cycle (a self-loop is a cycle)
Acyclic == \A d \in NodeIds : d \notin ReachIn({d}, MaxNodes)

AcyclicInput == Len(nodes) > 0 /\ EdgesOverNodes /\ Acyclic

\* C1 as stated: for a non-empty node list and an acyclic edge list over
\* those nodes, exactly one node has parentOf = null and every node reaches
\* that node by following parentOf at most N times.
C1_ExactlyOneRoot ==
    (TreeDone /\ AcyclicInput) =>
        /\ Cardinality(Roots) = 1
        /\ \A d \in NodeSet : \E k \in 0 .. Len(nodes) : Anc(d, k) \in Roots

\* C1 amended: for a non-empty node list and an acyclic edge list over
\* those nodes, at least one node has parentOf = null and every node reaches
\* such a node by following parentOf at most N times (N the node count).
C1_ReachesSomeRoot ==
    (TreeDone /\ AcyclicInput) =>
        /\ Roots # {}
        /\ \A d \in NodeSet : \E k \in 0 .. Len(nodes) : Anc(d, k) \in Roots

\* an acyclic chain: some node sits two levels below a root
C1_Witness ==
    /\ TreeDone /\ AcyclicInput
    /\ Len(edges) >= 2
    /\ \E d \in NodeSet : Up(d) \notin Roots /\ Up(d) # Null /\ Anc(d, 2) \in Roots

\* C2: the parent assignment contains no cycle: following parentOf from a
\* node never comes back to that node.  (One parent per node holds by
\* parentOf being a function.)
C2_NoParentCycle ==
    \A d \in DOMAIN parentOf : \A k \in 1 .. MaxNodes : Anc(d, k) # d

\* C3: when parentOf(d) = p is assigned the edge list has no edge d -> p, no
\* two nodes are each other's parent, and for nodes {A, B} with edges
\* [(A->B), (B->A)] at least one of A, B has parentOf = null.
C3_NoBackEdgeToParent ==
    /\ \A d \in DOMAIN parentOf :
          parentOf[d] # Null =>
            /\ \A j \in 1 .. Len(edges) : edges[j] # <<d, parentOf[d]>>
            /\ Up(parentOf[d]) # d
    /\ (TreeDone /\ nodes = <<1, 2>> /\ edges = << <<1, 2>>, <<2, 1>> >>) =>
          (parentOf[1] = Null \/ parentOf[2] = Null)

\* the two-node two-cycle of the claim, after the reduction
C3_Witness ==
    /\ TreeDone
    /\ nodes = <<1, 2>>
    /\ edges = << <<1, 2>>, <<2, 1>> >>
    /\ parentOf[1] = Null

\* C10: no node is assigned as its own parent, wherever a self-loop edge
\* stands in the edge list.
C10_NeverOwnParent ==
    \A d \in DOMAIN parentOf : parentOf[d] # d

\* a self-loop that is not the first edge is the first incoming edge of a
\* listed node, and the reduction has run
C10_Witness ==
    /\ TreeDone
    /\ \E d \in NodeSet :
          LET j == FindIncoming(edges, d)
          IN  j >= 2 /\ edges[j] = <<d, d>>

====
